---- MODULE Spec2Model ----
(***************************************************************************)
(* The Synacor virtual machine of src/src/main.rs: a memory of 32768       *)
(* 16-bit words, eight registers, an unbounded stack and a program         *)
(* counter, driven by the fetch/decode/execute loop of VM::run.            *)
(*                                                                         *)
(* memory is kept sparse: a function from the cells that differ from the   *)
(* array's initial zero to their content; Mem reads a cell.                *)
(***************************************************************************)
EXTENDS Integers, Naturals, Sequences, FiniteSets, TLC

\* ------------------------------------------------------------------------
\* Program constants
\* ------------------------------------------------------------------------
MEM_SIZE == 32768

NUM_REGISTERS == 8

BASE == 32768

\* one past the largest u16
U16 == 65536

\* the value of a local of run() that the current iteration has not bound
NONE == -1

\* ------------------------------------------------------------------------
\* Bounds of the model
\* ------------------------------------------------------------------------
\* PUSH and CALL are explored while the stack is shorter than this
MaxStack == 3

\* OUT is explored while fewer than this many bytes were printed
MaxOut == 3

\* the longest run of PUSH instructions that opens a stack program
MaxPush == 2

\* the longest program file, in bytes
MaxFile == 5

VARIABLES memory, registers, stack, pc, status, error, output, op, a, b, c, v,
          file, load_i

vars == <<memory, registers, stack, pc, status, error, output, op, a, b, c, v,
          file, load_i>>

\* ------------------------------------------------------------------------
\* Memory and word arithmetic
\* ------------------------------------------------------------------------
\* self.memory[i] for i < MEM_SIZE
Mem(m, i) == IF i \in DOMAIN m THEN m[i] ELSE 0

\* u16::wrapping_mul: the low 16 bits of the product, computed by halves of
\* y so that no intermediate exceeds 32 bits
wrapping_mul_saturating(x, y) ==
    IF x > 0 /\ y > (U16 - 1) \div x THEN U16 - 1 ELSE x * y

wrapping_mul(x, y) ==
    (((x * (y % 256)) % U16) + 256 * ((x * (y \div 256)) % 256)) % U16

RECURSIVE BitAndN(_, _, _)
BitAndN(x, y, n) ==
    IF n = 0 THEN 0
    ELSE ((x % 2) * (y % 2)) + 2 * BitAndN(x \div 2, y \div 2, n - 1)

RECURSIVE BitOrN(_, _, _)
BitOrN(x, y, n) ==
    IF n = 0 THEN 0
    ELSE (IF (x % 2) + (y % 2) > 0 THEN 1 ELSE 0)
         + 2 * BitOrN(x \div 2, y \div 2, n - 1)

\* b & c on u16
BitAnd(x, y) == BitAndN(x, y, 16)

\* b | c on u16
BitOr(x, y) == BitOrN(x, y, 16)

\* !b on u16
BitNot(x) == (U16 - 1) - x

\* print!("{}", a as u8 as char): the char U+0000..U+00FF in UTF-8
Utf8(ch) ==
    IF ch < 128 THEN <<ch>>
    ELSE <<192 + (ch \div 64), 128 + (ch % 64)>>

\* The bytes of stdout that have left the process.  print! writes to a
\* line-buffered stdout and run() never flushes: what was printed up to and
\* including the last newline has been written out, the rest is still in the
\* buffer (whose capacity, 1024 bytes, no explored run fills).
Observable(out) ==
    LET ks == {k \in 1 .. Len(out) : out[k] = 10}
    IN  IF ks = {} THEN <<>>
        ELSE SubSeq(out, 1, CHOOSE k \in ks : \A j \in ks : j <= k)

\* ------------------------------------------------------------------------
\* Operand decoders.  p is self.pc at the call; the result carries the
\* decoded value, self.pc after the call and the fatal error, if any.
\* ------------------------------------------------------------------------
get_literal_32768(p) ==
    IF p >= MEM_SIZE
    THEN [err |-> "index out of bounds", val |-> NONE, pc |-> p]
    ELSE LET raw == Mem(memory, p) IN
         IF raw <= MEM_SIZE
         THEN [err |-> "none", val |-> raw, pc |-> p + 1]
         ELSE IF raw - MEM_SIZE < NUM_REGISTERS
         THEN [err |-> "none", val |-> registers[raw - MEM_SIZE], pc |-> p + 1]
         ELSE [err |-> "bad memory value", val |-> NONE, pc |-> p + 1]

get(p) ==
    IF p >= MEM_SIZE
    THEN [err |-> "index out of bounds", val |-> NONE, pc |-> p]
    ELSE LET raw == Mem(memory, p) IN
         IF raw < MEM_SIZE
         THEN [err |-> "none", val |-> raw, pc |-> p + 1]
         ELSE IF raw - MEM_SIZE < NUM_REGISTERS
         THEN [err |-> "none", val |-> registers[raw - MEM_SIZE], pc |-> p + 1]
         ELSE [err |-> "bad memory value", val |-> NONE, pc |-> p + 1]

get_address(p) == get(p)

get_register_any(p) ==
    IF p >= MEM_SIZE
    THEN [err |-> "index out of bounds", val |-> NONE, pc |-> p]
    ELSE LET raw == Mem(memory, p) IN
         [err |-> "none", val |-> raw % NUM_REGISTERS, pc |-> p + 1]

\* a cell below MEM_SIZE ends the run in the fatal! branch in every build
\* (a build with overflow checks panics there on a - MEM_SIZE, while the
\* message is formatted)
get_register(p) ==
    IF p >= MEM_SIZE
    THEN [err |-> "index out of bounds", val |-> NONE, pc |-> p]
    ELSE LET raw == Mem(memory, p) IN
         IF (MEM_SIZE <= raw) /\ (raw - MEM_SIZE < NUM_REGISTERS)
         THEN [err |-> "none", val |-> raw - MEM_SIZE, pc |-> p + 1]
         ELSE [err |-> "bad register lvalue", val |-> NONE, pc |-> p + 1]

\* one operand by its kind: "r" a write operand, "v" a read operand,
\* "m" an address operand
Operand(kind, p) ==
    IF kind = "r" THEN get_register(p)
    ELSE IF kind = "m" THEN get_address(p)
    ELSE get(p)

\* the operand fetches of each arm of run(), in order
Kinds(n) ==
    CASE n \in {0, 18, 21} -> <<>>
      [] n \in {1, 14} -> <<"r", "v">>
      [] n \in {2, 19} -> <<"v">>
      [] n \in {3, 20} -> <<"r">>
      [] n \in {4, 5, 9, 10, 11, 12, 13} -> <<"r", "v", "v">>
      [] n \in {6, 17} -> <<"m">>
      [] n \in {7, 8} -> <<"v", "m">>
      [] n = 15 -> <<"r", "m">>
      [] n = 16 -> <<"m", "v">>
      [] OTHER -> <<>>

\* the operand fetches of one arm of run(), in order, stopping at the
\* first that is fatal
Decode(kinds, p) ==
    LET n  == Len(kinds)
        d1 == IF n >= 1 THEN Operand(kinds[1], p)
              ELSE [err |-> "none", val |-> NONE, pc |-> p]
        d2 == IF n >= 2 /\ d1.err = "none" THEN Operand(kinds[2], d1.pc)
              ELSE [err |-> d1.err, val |-> NONE, pc |-> d1.pc]
        d3 == IF n >= 3 /\ d2.err = "none" THEN Operand(kinds[3], d2.pc)
              ELSE [err |-> d2.err, val |-> NONE, pc |-> d2.pc]
    IN  [a |-> d1.val, b |-> d2.val, c |-> d3.val, pc |-> d3.pc, err |-> d3.err]

\* ------------------------------------------------------------------------
\* The instruction loop of VM::run
\* ------------------------------------------------------------------------
\* let op = self.memory[self.pc]; self.pc += 1; match op { n => ... }
Fetch(n) ==
    /\ status = "running"
    /\ pc < MEM_SIZE
    /\ Mem(memory, pc) = n

\* the locals of the iteration, self.pc after the operand fetches, and the
\* run's fate when an operand fetch was fatal
Locals(n, d) ==
    /\ op' = n
    /\ a' = d.a
    /\ b' = d.b
    /\ c' = d.c
    /\ pc' = d.pc

\* fatal!(...) or a panic of the runtime: the run ends with this message.
\* output holds the bytes OUT printed; the diagnostic is kept in error.
Fatal(msg) ==
    /\ status' = "fatal"
    /\ error' = msg

Continue ==
    /\ status' = "running"
    /\ error' = error

\* the arms  a = get_register(); b = get(); c = get(); registers[a] = r
\* where d is the outcome of the operand fetches and r the value computed
\* from b and c
Arith(n, d, r) ==
    /\ Locals(n, d)
    /\ v' = NONE
    /\ IF d.err # "none"
       THEN /\ Fatal(d.err)
            /\ UNCHANGED <<memory, registers, stack, output>>
       ELSE /\ Continue
            /\ registers' = [registers EXCEPT ![d.a] = r]
            /\ UNCHANGED <<memory, stack, output>>

\* the self.memory[self.pc] of the fetch when self.pc has left the memory
FetchOutOfBounds ==
    /\ status = "running"
    /\ UNCHANGED <<file, load_i>>
    /\ pc >= MEM_SIZE
    /\ Fatal("index out of bounds")
    /\ op' = NONE
    /\ a' = NONE
    /\ b' = NONE
    /\ c' = NONE
    /\ v' = NONE
    /\ UNCHANGED <<memory, registers, stack, pc, output>>

Halt ==
    /\ Fetch(0)
    /\ UNCHANGED <<file, load_i>>
    /\ Locals(0, Decode(Kinds(0), pc + 1))
    /\ v' = NONE
    /\ status' = "halted"
    /\ UNCHANGED <<memory, registers, stack, output, error>>

Set ==
    /\ Fetch(1)
    /\ UNCHANGED <<file, load_i>>
    /\ LET d == Decode(Kinds(1), pc + 1) IN
       /\ Locals(1, d)
       /\ v' = NONE
       /\ IF d.err # "none"
          THEN /\ Fatal(d.err)
               /\ UNCHANGED <<memory, registers, stack, output>>
          ELSE /\ Continue
               /\ registers' = [registers EXCEPT ![d.a] = d.b]
               /\ UNCHANGED <<memory, stack, output>>

Push ==
    /\ Fetch(2)
    /\ UNCHANGED <<file, load_i>>
    /\ Len(stack) < MaxStack
    /\ LET d == Decode(Kinds(2), pc + 1) IN
       /\ Locals(2, d)
       /\ v' = NONE
       /\ IF d.err # "none"
          THEN /\ Fatal(d.err)
               /\ UNCHANGED <<memory, registers, stack, output>>
          ELSE /\ Continue
               /\ stack' = Append(stack, d.a)
               /\ UNCHANGED <<memory, registers, output>>

\* the stack is popped before the target operand is fetched
Pop ==
    /\ Fetch(3)
    /\ UNCHANGED <<file, load_i>>
    /\ IF stack = <<>>
       THEN /\ Locals(3, Decode(<<>>, pc + 1))
            /\ v' = NONE
            /\ Fatal("pop from empty stack")
            /\ UNCHANGED <<memory, registers, stack, output>>
       ELSE LET d == Decode(Kinds(3), pc + 1) IN
            /\ Locals(3, d)
            /\ v' = stack[Len(stack)]
            /\ stack' = SubSeq(stack, 1, Len(stack) - 1)
            /\ IF d.err # "none"
               THEN /\ Fatal(d.err)
                    /\ UNCHANGED <<memory, registers, output>>
               ELSE /\ Continue
                    /\ registers' = [registers EXCEPT ![d.a] = stack[Len(stack)]]
                    /\ UNCHANGED <<memory, output>>

EqResult(x, y) == IF x = y THEN 1 ELSE 0

Eq ==
    /\ Fetch(4)
    /\ UNCHANGED <<file, load_i>>
    /\ LET d == Decode(Kinds(4), pc + 1) IN
       Arith(4, d, EqResult(d.b, d.c))

GtResult(x, y) == IF x > y THEN 1 ELSE 0

Gt ==
    /\ Fetch(5)
    /\ UNCHANGED <<file, load_i>>
    /\ LET d == Decode(Kinds(5), pc + 1) IN
       Arith(5, d, GtResult(d.b, d.c))

Jmp ==
    /\ Fetch(6)
    /\ UNCHANGED <<file, load_i>>
    /\ LET d == Decode(Kinds(6), pc + 1) IN
       /\ op' = 6
       /\ a' = d.a
       /\ b' = NONE
       /\ c' = NONE
       /\ v' = NONE
       /\ IF d.err # "none"
          THEN /\ Fatal(d.err)
               /\ pc' = d.pc
          ELSE /\ Continue
               /\ pc' = d.a
       /\ UNCHANGED <<memory, registers, stack, output>>

\* a conditional jump that leaves the address operand unread when the
\* condition does not hold
CondJumpLazy(n, d, taken) ==
    /\ op' = n
    /\ a' = d.a
    /\ b' = d.b
    /\ c' = NONE
    /\ v' = NONE
    /\ IF d.err # "none"
       THEN /\ Fatal(d.err)
            /\ pc' = d.pc
       ELSE /\ Continue
            /\ pc' = IF taken THEN d.b ELSE d.pc - 1
    /\ UNCHANGED <<memory, registers, stack, output>>

\* JT (n = 7, taken when a # 0) and JF (n = 8, taken when a = 0); d is the
\* outcome of the operand fetches
CondJump(n, d, taken) ==
    /\ op' = n
    /\ a' = d.a
    /\ b' = d.b
    /\ c' = NONE
    /\ v' = NONE
    /\ IF d.err # "none"
       THEN /\ Fatal(d.err)
            /\ pc' = d.pc
       ELSE /\ Continue
            /\ pc' = IF taken THEN d.b ELSE d.pc
    /\ UNCHANGED <<memory, registers, stack, output>>

JtTaken(x) == x # 0

Jt ==
    /\ Fetch(7)
    /\ UNCHANGED <<file, load_i>>
    /\ LET d == Decode(Kinds(7), pc + 1) IN
       CondJump(7, d, JtTaken(d.a))

JfTaken(x) == x = 0

Jf ==
    /\ Fetch(8)
    /\ UNCHANGED <<file, load_i>>
    /\ LET d == Decode(Kinds(8), pc + 1) IN
       CondJump(8, d, JfTaken(d.a))

\* (b + c) % BASE when the u16 sum does not overflow, and in a build
\* without overflow checks
AddResultNoMod(x, y) == (x + y) % U16

AddResult(x, y) == ((x + y) % U16) % BASE

\* b + c on u16 overflows past 65535: a build with overflow checks panics,
\* a build without them wraps
Add ==
    /\ Fetch(9)
    /\ UNCHANGED <<file, load_i>>
    /\ LET d == Decode(Kinds(9), pc + 1) IN
       /\ Locals(9, d)
       /\ v' = NONE
       /\ IF d.err # "none"
          THEN /\ Fatal(d.err)
               /\ UNCHANGED <<memory, registers, stack, output>>
          ELSE \/ /\ d.b + d.c >= U16
                  /\ Fatal("attempt to add with overflow")
                  /\ UNCHANGED <<memory, registers, stack, output>>
               \/ /\ Continue
                  /\ registers' = [registers EXCEPT ![d.a] = AddResult(d.b, d.c)]
                  /\ UNCHANGED <<memory, stack, output>>

MultResult(x, y) == wrapping_mul(x, y) % BASE

Mult ==
    /\ Fetch(10)
    /\ UNCHANGED <<file, load_i>>
    /\ LET d == Decode(Kinds(10), pc + 1) IN
       Arith(10, d, MultResult(d.b, d.c))

\* the quotient in place of the remainder
ModResultDiv(x, y) == x \div y

\* b % c on u16, for a divisor that is not zero
ModResult(x, y) == x % y

\* b % c panics when c is zero
Mod ==
    /\ Fetch(11)
    /\ UNCHANGED <<file, load_i>>
    /\ LET d == Decode(Kinds(11), pc + 1) IN
       /\ Locals(11, d)
       /\ v' = NONE
       /\ IF d.err # "none"
          THEN /\ Fatal(d.err)
               /\ UNCHANGED <<memory, registers, stack, output>>
          ELSE IF d.c = 0
          THEN /\ Fatal("attempt to calculate the remainder with a divisor of zero")
               /\ UNCHANGED <<memory, registers, stack, output>>
          ELSE /\ Continue
               /\ registers' = [registers EXCEPT ![d.a] = ModResult(d.b, d.c)]
               /\ UNCHANGED <<memory, stack, output>>

And ==
    /\ Fetch(12)
    /\ UNCHANGED <<file, load_i>>
    /\ LET d == Decode(Kinds(12), pc + 1) IN
       Arith(12, d, BitAnd(d.b, d.c))

Or ==
    /\ Fetch(13)
    /\ UNCHANGED <<file, load_i>>
    /\ LET d == Decode(Kinds(13), pc + 1) IN
       Arith(13, d, BitOr(d.b, d.c))

\* the 16-bit complement, without the mask to 15 bits
NotResultUnmasked(x) == BitNot(x)

NotResult(x) == BitAnd(BitNot(x), BASE - 1)

Not ==
    /\ Fetch(14)
    /\ UNCHANGED <<file, load_i>>
    /\ LET d == Decode(Kinds(14), pc + 1) IN
       /\ Locals(14, d)
       /\ v' = NONE
       /\ IF d.err # "none"
          THEN /\ Fatal(d.err)
               /\ UNCHANGED <<memory, registers, stack, output>>
          ELSE /\ Continue
               /\ registers' = [registers EXCEPT ![d.a] = NotResult(d.b)]
               /\ UNCHANGED <<memory, stack, output>>

\* self.memory[b] panics when b is not an index of the memory
Rmem ==
    /\ Fetch(15)
    /\ UNCHANGED <<file, load_i>>
    /\ LET d == Decode(Kinds(15), pc + 1) IN
       /\ Locals(15, d)
       /\ v' = NONE
       /\ IF d.err # "none"
          THEN /\ Fatal(d.err)
               /\ UNCHANGED <<memory, registers, stack, output>>
          ELSE IF d.b >= MEM_SIZE
          THEN /\ Fatal("index out of bounds")
               /\ UNCHANGED <<memory, registers, stack, output>>
          ELSE /\ Continue
               /\ registers' = [registers EXCEPT ![d.a] = Mem(memory, d.b)]
               /\ UNCHANGED <<memory, stack, output>>

\* a store that lands one cell after the address
StoreNextCell(m, addr, val) == (((addr + 1) % MEM_SIZE) :> val) @@ m

\* self.memory[a] = b
Store(m, addr, val) == (addr :> val) @@ m

Wmem ==
    /\ Fetch(16)
    /\ UNCHANGED <<file, load_i>>
    /\ LET d == Decode(Kinds(16), pc + 1) IN
       /\ Locals(16, d)
       /\ v' = NONE
       /\ IF d.err # "none"
          THEN /\ Fatal(d.err)
               /\ UNCHANGED <<memory, registers, stack, output>>
          ELSE IF d.a >= MEM_SIZE
          THEN /\ Fatal("index out of bounds")
               /\ UNCHANGED <<memory, registers, stack, output>>
          ELSE /\ Continue
               /\ memory' = Store(memory, d.a, d.b)
               /\ UNCHANGED <<registers, stack, output>>

\* the word CALL pushes: self.pc as u16, after the address operand
ReturnAddressOfCall(p) == (p - 2) % U16

ReturnAddress(p) == p % U16

Call ==
    /\ Fetch(17)
    /\ UNCHANGED <<file, load_i>>
    /\ Len(stack) < MaxStack
    /\ LET d == Decode(Kinds(17), pc + 1) IN
       /\ op' = 17
       /\ a' = d.a
       /\ b' = NONE
       /\ c' = NONE
       /\ v' = NONE
       /\ IF d.err # "none"
          THEN /\ Fatal(d.err)
               /\ pc' = d.pc
               /\ UNCHANGED <<memory, registers, stack, output>>
          ELSE /\ Continue
               /\ stack' = Append(stack, ReturnAddress(d.pc))
               /\ pc' = d.a
               /\ UNCHANGED <<memory, registers, output>>

\* what RET does when self.stack.pop() is None: break
RetOnEmptyFatal == Fatal("pop from empty stack")

RetOnEmpty ==
    /\ status' = "halted"
    /\ error' = error

Ret ==
    /\ Fetch(18)
    /\ UNCHANGED <<file, load_i>>
    /\ op' = 18
    /\ a' = NONE
    /\ b' = NONE
    /\ c' = NONE
    /\ IF stack = <<>>
       THEN /\ RetOnEmpty
            /\ v' = NONE
            /\ pc' = pc + 1
            /\ UNCHANGED <<memory, registers, stack, output>>
       ELSE /\ Continue
            /\ v' = stack[Len(stack)]
            /\ pc' = stack[Len(stack)]
            /\ stack' = SubSeq(stack, 1, Len(stack) - 1)
            /\ UNCHANGED <<memory, registers, output>>

Out ==
    /\ Fetch(19)
    /\ UNCHANGED <<file, load_i>>
    /\ Len(output) < MaxOut
    /\ LET d == Decode(Kinds(19), pc + 1) IN
       /\ Locals(19, d)
       /\ v' = NONE
       /\ IF d.err # "none"
          THEN /\ Fatal(d.err)
               /\ UNCHANGED <<memory, registers, stack, output>>
          ELSE /\ Continue
               /\ output' = output \o Utf8(d.a % 256)
               /\ UNCHANGED <<memory, registers, stack>>

\* what std::io::stdin().bytes().next() can yield: a byte, or NONE for the
\* end of the input or a read error
Stdin == {NONE, 10, 65, 255}

In ==
    /\ Fetch(20)
    /\ UNCHANGED <<file, load_i>>
    /\ LET d == Decode(Kinds(20), pc + 1) IN
       /\ op' = 20
       /\ a' = d.a
       /\ c' = NONE
       /\ pc' = d.pc
       /\ IF d.err # "none"
          THEN /\ Fatal(d.err)
               /\ b' = NONE
               /\ v' = NONE
               /\ UNCHANGED <<memory, registers, stack, output>>
          ELSE \E byte \in Stdin :
               IF byte = NONE
               THEN /\ Fatal("read error")
                    /\ b' = NONE
                    /\ v' = NONE
                    /\ UNCHANGED <<memory, registers, stack, output>>
               ELSE /\ Continue
                    /\ v' = byte
                    /\ b' = byte % BASE
                    /\ registers' = [registers EXCEPT ![d.a] = byte % BASE]
                    /\ UNCHANGED <<memory, stack, output>>

Noop ==
    /\ Fetch(21)
    /\ UNCHANGED <<file, load_i>>
    /\ Locals(21, Decode(Kinds(21), pc + 1))
    /\ v' = NONE
    /\ Continue
    /\ UNCHANGED <<memory, registers, stack, output>>

BadOpcode ==
    /\ status = "running"
    /\ UNCHANGED <<file, load_i>>
    /\ pc < MEM_SIZE
    /\ Mem(memory, pc) > 21
    /\ Locals(Mem(memory, pc), Decode(Kinds(Mem(memory, pc)), pc + 1))
    /\ v' = NONE
    /\ Fatal("bad opcode")
    /\ UNCHANGED <<memory, registers, stack, output>>

\* ------------------------------------------------------------------------
\* The memory images run() is started on.  main() fills the memory with
\* init() and load() before run(); an image is any content of the memory,
\* cells in 0..65535.  The images explored are the programs below.
\* ------------------------------------------------------------------------
\* the array with ws in its first cells, as init() and load() place a program
Words(ws) == [i \in 0 .. (Len(ws) - 1) |-> ws[i + 1]]

\* operand cells: literals, the registers 0, 1 and 7, an invalid encoding
OperandCells == {0, 1, 32767, 32768, 32769, 32775, 32776}

\* data cells, which RMEM copies into registers
DataCells == {0, 2, 32767, 32768, 65535}

\* one instruction of every opcode (and the invalid opcode 22) with every
\* combination of operand cells
Instructions ==
    {<<n>> : n \in {0, 18, 21, 22}}
    \cup {<<n, x>> : n \in {2, 3, 6, 17, 19, 20}, x \in OperandCells}
    \cup {<<n, x, y>> : n \in {1, 7, 8, 14, 15, 16},
                        x \in OperandCells, y \in OperandCells}
    \cup {<<n, x, y, z>> : n \in {4, 5, 9, 10, 11, 12, 13},
                           x \in OperandCells, y \in OperandCells,
                           z \in OperandCells}

\* RMEM r0 [100]; RMEM r1 [101]; one instruction; then zeros (HALT)
InstructionImage(ins, d0, d1) ==
    Words(<<15, 32768, 100, 15, 32769, 101>> \o ins)
        @@ (100 :> d0) @@ (101 :> d1)

RECURSIVE PushRuns(_)
PushRuns(k) ==
    IF k = 0 THEN {<<>>}
    ELSE {<<2, s>> \o r : s \in {7, 32768}, r \in PushRuns(k - 1)}

\* what follows the pushes: POP, RET, CALL, or a JMP to the top of memory
StackTails ==
    {<<3, x>> : x \in OperandCells}
    \cup {<<18>>}
    \cup {<<17, t>> : t \in {50, 32768, 32776}}
    \cup {<<6, 32766>>, <<6, 32767>>}

\* RMEM r0 [100]; up to MaxPush PUSHes; a stack instruction; a RET at 50;
\* two cells at the top of memory
StackImage(pushes, tail, d0, h) ==
    Words(<<15, 32768, 100>> \o pushes \o tail)
        @@ (100 :> d0) @@ (50 :> 18) @@ (32766 :> h[1]) @@ (32767 :> h[2])

\* OUT o1; IN r; OUT o2; then zeros (HALT)
IoImage(o1, r, o2) == Words(<<19, o1, 20, r, 19, o2>>)

\* six complete programs, the first being the program main() passes to
\* init() followed by a HALT
Scenarios ==
    << <<9, 32768, 32769, 65, 19, 32768, 0>>,
       <<19, 72, 19, 105, 0>>,
       <<1, 32768, 10, 1, 32769, 3, 10, 32770, 32768, 32769, 19, 32770, 0>>,
       <<17, 5, 19, 66, 0, 19, 65, 18>>,
       <<14, 32768, 0, 0>>,
       <<6, 6, 0, 0, 0, 0, 19, 88, 0>> >>

\* ------------------------------------------------------------------------
\* main(): VM::new(), init() of the built-in program, load() of the program
\* file, run().  file is the byte source load() reads: its bytes, the
\* offset (if any) at which reading it fails, and whether it can be opened;
\* load_i is the local i of load(), the number of words stored so far.
\* status is "new" after VM::new(), "opening" after init(), "loading" in
\* the loop of load(), "loaded" when load() has returned Ok(()).
\* ------------------------------------------------------------------------
\* a file of no bytes: the byte source of a run that is entered directly
NoFile == [bytes |-> <<>>, errAt |-> NONE, exists |-> TRUE]

\* the program main() passes to init()
InitProgram == <<9, 32768, 32769, 65, 19, 32768>>

\* file.read(&mut buffer) with a 2-byte buffer at offset pos of a regular
\* file: Err(_) if the read fails there, else Ok(n), n the bytes read
ReadResult(f, pos) ==
    LET limit == IF f.errAt = NONE \/ f.errAt > Len(f.bytes)
                 THEN Len(f.bytes) ELSE f.errAt
    IN  IF f.errAt = pos THEN [ok |-> FALSE, n |-> 0]
        ELSE IF limit - pos >= 2 THEN [ok |-> TRUE, n |-> 2]
        ELSE IF limit - pos = 1 THEN [ok |-> TRUE, n |-> 1]
        ELSE [ok |-> TRUE, n |-> 0]

\* the word with the two bytes in the other order
LoadedWordSwapped(lo, hi) == BitOr((lo * 256) % U16, hi)

\* ((buffer[1] as u16) << 8) | buffer[0] as u16
LoadedWord(lo, hi) == BitOr((hi * 256) % U16, lo)

\* init(): the program is copied to the first cells
VmInit ==
    /\ status = "new"
    /\ memory' = Words(InitProgram) @@ memory
    /\ status' = "opening"
    /\ UNCHANGED <<registers, stack, pc, error, output, op, a, b, c, v,
                   file, load_i>>

\* try!(File::open(filename)) fails: load() returns the error and main()
\* ends with fatal!
LoadOpenFail ==
    /\ status = "opening"
    /\ ~file.exists
    /\ Fatal("cannot read program file")
    /\ UNCHANGED <<memory, registers, stack, pc, output, op, a, b, c, v,
                   file, load_i>>

LoadOpen ==
    /\ status = "opening"
    /\ file.exists
    /\ status' = "loading"
    /\ load_i' = 0
    /\ UNCHANGED <<memory, registers, stack, pc, error, output,
                   op, a, b, c, v, file>>

\* the arm Ok(2): one word stored at memory[i]
LoadWord ==
    /\ status = "loading"
    /\ ReadResult(file, 2 * load_i) = [ok |-> TRUE, n |-> 2]
    /\ IF load_i >= MEM_SIZE
       THEN /\ Fatal("index out of bounds")
            /\ UNCHANGED <<memory, load_i>>
       ELSE /\ memory' = (load_i :> LoadedWord(file.bytes[2 * load_i + 1],
                                               file.bytes[2 * load_i + 2]))
                         @@ memory
            /\ load_i' = load_i + 1
            /\ UNCHANGED <<status, error>>
    /\ UNCHANGED <<registers, stack, pc, output, op, a, b, c, v, file>>

\* the arm _ => break: the end of the file, a single last byte or a failed
\* read all leave the loop, and load() returns Ok(())
LoadEnd ==
    /\ status = "loading"
    /\ ReadResult(file, 2 * load_i) # [ok |-> TRUE, n |-> 2]
    /\ status' = "loaded"
    /\ UNCHANGED <<memory, registers, stack, pc, error, output,
                   op, a, b, c, v, file, load_i>>

\* main(): Ok(_) => {} and then vm.run()
MainRun ==
    /\ status = "loaded"
    /\ status' = "running"
    /\ UNCHANGED <<memory, registers, stack, pc, error, output,
                   op, a, b, c, v, file, load_i>>

\* the bytes the explored files are made of
FileBytes == {0, 1, 255}

RECURSIVE ByteSeqs(_)
ByteSeqs(n) ==
    IF n = 0 THEN {<<>>}
    ELSE {Append(s, x) : s \in ByteSeqs(n - 1), x \in FileBytes}

\* the program files: every content up to MaxFile bytes, readable to its
\* end or failing at the start of a word; and a file that cannot be opened
Files ==
    {[bytes |-> bs, errAt |-> e, exists |-> TRUE] :
        bs \in UNION {ByteSeqs(n) : n \in 0 .. MaxFile}, e \in {NONE, 0, 2}}
    \cup {[bytes |-> <<>>, errAt |-> NONE, exists |-> FALSE]}

\* VM::new() in main()
LoadInit ==
    /\ memory = Words(<<>>)
    /\ registers = [k \in 0 .. (NUM_REGISTERS - 1) |-> 0]
    /\ stack = <<>>
    /\ pc = 0
    /\ status = "new"
    /\ error = "none"
    /\ output = <<>>
    /\ op = NONE
    /\ a = NONE
    /\ b = NONE
    /\ c = NONE
    /\ v = NONE
    /\ file \in Files
    /\ load_i = 0

LoadNext ==
    \/ VmInit
    \/ LoadOpenFail
    \/ LoadOpen
    \/ LoadWord
    \/ LoadEnd
    \/ MainRun

LoadSpec == LoadInit /\ [][LoadNext]_vars

\* VM::new(), then the memory as loaded, at the entry of run()
Init ==
    /\ \/ \E ins \in Instructions, d0 \in DataCells, d1 \in {2, 32767, 32768} :
             memory = InstructionImage(ins, d0, d1)
       \/ \E pushes \in UNION {PushRuns(k) : k \in 0 .. MaxPush},
             tail \in StackTails,
             d0 \in {0, 50, 65535},
             h \in {<<17, 50>>, <<21, 21>>, <<2, 7>>, <<21, 3>>} :
             memory = StackImage(pushes, tail, d0, h)
       \/ \E o1 \in {10, 65, 200}, r \in {0, 32768}, o2 \in {10, 32768} :
             memory = IoImage(o1, r, o2)
    /\ registers = [i \in 0 .. (NUM_REGISTERS - 1) |-> 0]
    /\ stack = <<>>
    /\ pc = 0
    /\ status = "running"
    /\ error = "none"
    /\ output = <<>>
    /\ op = NONE
    /\ a = NONE
    /\ b = NONE
    /\ c = NONE
    /\ v = NONE
    /\ file = NoFile
    /\ load_i = 0

Next ==
    \/ FetchOutOfBounds
    \/ Halt
    \/ Set
    \/ Push
    \/ Pop
    \/ Eq
    \/ Gt
    \/ Jmp
    \/ Jt
    \/ Jf
    \/ Add
    \/ Mult
    \/ Mod
    \/ And
    \/ Or
    \/ Not
    \/ Rmem
    \/ Wmem
    \/ Call
    \/ Ret
    \/ Out
    \/ In
    \/ Noop
    \/ BadOpcode

Spec == Init /\ [][Next]_vars

\* the instructions whose operand cells are the literal 1 or register 0
ShortInstructions ==
    {ins \in Instructions : \A j \in 2 .. Len(ins) : ins[j] \in {1, 32768}}

\* run() entered on one of the complete programs, or on a one-instruction
\* program of any opcode
ScenarioInit ==
    /\ \/ \E k \in 1 .. Len(Scenarios) :
             memory = Words(Scenarios[k])
       \/ \E ins \in ShortInstructions, d0 \in {2, 32768} :
             memory = InstructionImage(ins, d0, 2)
    /\ registers = [i \in 0 .. (NUM_REGISTERS - 1) |-> 0]
    /\ stack = <<>>
    /\ pc = 0
    /\ status = "running"
    /\ error = "none"
    /\ output = <<>>
    /\ op = NONE
    /\ a = NONE
    /\ b = NONE
    /\ c = NONE
    /\ v = NONE
    /\ file = NoFile
    /\ load_i = 0

\* the loop of run() keeps executing instructions until it breaks or panics
ScenarioSpec == ScenarioInit /\ [][Next]_vars /\ WF_vars(Next)

\* ------------------------------------------------------------------------
\* Properties
\* ------------------------------------------------------------------------
\* C1: between instructions of a run that has not faulted, every register
\* holds a value in 0..=32767.
C1_RegisterRange ==
    status # "fatal" => \A i \in DOMAIN registers : registers[i] \in 0 .. 32767

\* C2: between instructions of a run that has not faulted, the program
\* counter is in 0..=32767.
C2_PcRange ==
    status # "fatal" => pc \in 0 .. 32767

\* C3: MULT with operand values b, c in 0..=32767 completes and leaves
\* (b * c) mod 32768, the full-width product reduced, in register a;
\* 32767 * 2 gives 32766.
C3_MultModular ==
    (op = 10 /\ b \in 0 .. 32767 /\ c \in 0 .. 32767) =>
        /\ status = "running"
        /\ registers[a] = (b * c) % 32768
        /\ (b = 32767 /\ c = 2) => registers[a] = 32766

\* MULT of 32767 by 32767, a product past 16 bits, has left 1
C3_Witness ==
    /\ op = 10
    /\ status = "running"
    /\ b = 32767
    /\ c = 32767
    /\ registers[a] = 1

\* C4: ADD with operand values b, c in 0..=32767 completes and leaves
\* (b + c) mod 32768, a value in 0..=32767, in register a; 32767 + 1 gives 0.
C4_AddModular ==
    (op = 9 /\ b \in 0 .. 32767 /\ c \in 0 .. 32767) =>
        /\ status = "running"
        /\ registers[a] = (b + c) % 32768
        /\ registers[a] \in 0 .. 32767
        /\ (b = 32767 /\ c = 1) => registers[a] = 0

\* ADD of 32767 and 1 has left 0
C4_Witness ==
    /\ op = 9
    /\ status = "running"
    /\ b = 32767
    /\ c = 1
    /\ registers[a] = 0

\* C5: a read operand (or address operand) whose cell v is below 32768
\* decodes to v; a cell in 32768..32775 decodes to the content of register
\* v - 32768; a cell of 32776 or more ends the run with the fatal "bad
\* memory value", the program counter one past the cell and registers,
\* memory and stack untouched.  An instruction that completes without a
\* jump leaves the program counter one past its last operand.
C5_ReadOperand ==
    [][(status = "running" /\ pc < MEM_SIZE) =>
        LET n == Mem(memory, pc)
            kinds == Kinds(n)
            cell(i) == Mem(memory, pc + i)
            valid(i) == IF kinds[i] = "r" THEN cell(i) \in 32768 .. 32775
                        ELSE cell(i) < 32776
            reached(i) == /\ pc + i < MEM_SIZE
                          /\ n = 3 => stack # <<>>
                          /\ \A j \in 1 .. (i - 1) : valid(j)
            local(i) == IF i = 1 THEN a' ELSE IF i = 2 THEN b' ELSE c'
        IN  /\ \A i \in 1 .. Len(kinds) :
                (kinds[i] # "r" /\ reached(i)) =>
                    /\ cell(i) < 32768 => local(i) = cell(i)
                    /\ cell(i) \in 32768 .. 32775 =>
                           local(i) = registers[cell(i) - 32768]
                    /\ cell(i) >= 32776 =>
                           /\ status' = "fatal"
                           /\ error' = "bad memory value"
                           /\ pc' = pc + i + 1
                           /\ registers' = registers
                           /\ memory' = memory
                           /\ stack' = stack
            /\ (status' = "running" /\ n \in (0 .. 21) \ {6, 7, 8, 17, 18}) =>
                   pc' = pc + 1 + Len(kinds)
      ]_vars

\* OUT of the operand cell 32768 has read 32767 from register 0
C5_Witness ==
    /\ op = 19
    /\ status = "running"
    /\ Mem(memory, pc - 1) = 32768
    /\ registers[0] = 32767
    /\ a = 32767

\* C6: a register-writing instruction whose target cell is not in
\* 32768..32775 ends the run with the fatal "bad register lvalue" and writes
\* no register; with a target cell in that range, register cell - 32768 is
\* the target and no other register changes.
C6_WriteOperand ==
    [][(/\ status = "running"
        /\ pc + 1 < MEM_SIZE
        /\ Mem(memory, pc) \in {1, 3, 4, 5, 9, 10, 11, 12, 13, 14, 15, 20}
        /\ Mem(memory, pc) = 3 => stack # <<>>) =>
        LET cell == Mem(memory, pc + 1) IN
        IF cell \in 32768 .. 32775
        THEN /\ a' = cell - 32768
             /\ \A r \in DOMAIN registers :
                    r # cell - 32768 => registers'[r] = registers[r]
             /\ (Mem(memory, pc) = 1 /\ status' = "running") =>
                    registers'[cell - 32768] = b'
        ELSE /\ status' = "fatal"
             /\ error' = "bad register lvalue"
             /\ registers' = registers
      ]_vars

\* SET with the literal 32767 as its target has ended the run
C6_Witness ==
    /\ op = 1
    /\ status = "fatal"
    /\ error = "bad register lvalue"
    /\ Mem(memory, pc - 1) = 32767
    /\ \A r \in DOMAIN registers : r > 1 => registers[r] = 0

\* C7: an instruction whose address operand resolves to 32768 or more
\* (JMP, CALL, WMEM in a; JT, JF, RMEM in b) ends the run at that
\* instruction, the program counter never taking the value.
C7_InvalidAddressFatal ==
    LET addr == IF op \in {6, 16, 17} THEN a
                ELSE IF op \in {7, 8, 15} THEN b
                ELSE NONE
    IN  addr >= 32768 => (status = "fatal" /\ pc # addr)

\* C8: a CALL at p that completes pushes p + 2 and sets the program counter
\* to its target; a RET executed right after a CALL sets the program counter
\* to that pushed address, two past a CALL opcode, and leaves the stack as
\* it was before the CALL.
C8_CallRet ==
    [][/\ (Fetch(17) /\ status' = "running") =>
            LET cell == Mem(memory, pc + 1) IN
            /\ stack' = Append(stack, pc + 2)
            /\ pc' = IF cell < 32768 THEN cell ELSE registers[cell - 32768]
       /\ (op = 17 /\ Fetch(18)) =>
            /\ status' = "running"
            /\ pc' = stack[Len(stack)]
            /\ Mem(memory, pc' - 2) = 17
            /\ stack' = SubSeq(stack, 1, Len(stack) - 1)
      ]_vars

\* the RET after a CALL at 32766 has returned to 32768 with the two words
\* pushed before the CALL still on the stack
C8_Witness ==
    /\ op = 18
    /\ status = "running"
    /\ v = 32768
    /\ pc = 32768
    /\ Len(stack) = 2

\* C9: RET on an empty stack ends the run as HALT does, without an error;
\* POP on an empty stack ends it with the fatal "pop from empty stack";
\* both leave registers, memory and stack as they were, and a run that has
\* ended takes no further step.
C9_EmptyStack ==
    [][/\ status = "running"
       /\ (Fetch(18) /\ stack = <<>>) =>
            /\ status' = "halted"
            /\ error' = "none"
            /\ registers' = registers
            /\ memory' = memory
            /\ stack' = stack
       /\ (Fetch(3) /\ stack = <<>>) =>
            /\ status' = "fatal"
            /\ error' = "pop from empty stack"
            /\ registers' = registers
            /\ memory' = memory
            /\ stack' = stack
       /\ Fetch(0) => status' = "halted" /\ error' = "none"
      ]_vars

\* a RET on the empty stack has ended the run normally
C9_Witness ==
    /\ op = 18
    /\ status = "halted"
    /\ error = "none"
    /\ stack = <<>>

\* C10: an instruction that fails on an invalid operand encoding leaves
\* registers, memory and stack as they were before its opcode was fetched.
C10_AllOrNothing ==
    [][(/\ status' = "fatal"
        /\ error' \in {"bad memory value", "bad register lvalue"}) =>
            /\ registers' = registers
            /\ memory' = memory
            /\ stack' = stack
      ]_vars

\* C11: when an IN instruction asks for its input byte, every byte the
\* earlier OUT instructions printed has left the process: none is still in
\* the buffer of stdout.
C11_OutputBeforeInput ==
    [][(/\ Fetch(20)
        /\ pc + 1 < MEM_SIZE
        /\ Mem(memory, pc + 1) \in 32768 .. 32775) =>
            Observable(output) = output
      ]_vars

\* C12: an OUT that completes with an operand value b in 0..=32767 appends
\* exactly one byte, b mod 256, to the output.
C12_OutOneByte ==
    [][(Fetch(19) /\ status' = "running" /\ a' \in 0 .. 32767) =>
            output' = Append(output, a' % 256)
      ]_vars

\* C16: a MOD whose operands decode to b in 0..=32767 and c in 1..=32767
\* stores the remainder of b by c (the r < c with b = q * c + r) in
\* register a and changes no other register; with c = 0 the run ends in a
\* fatal error with registers, memory and stack as they were; and nothing
\* executes once the run has ended in a fatal error.
C16_Mod ==
    [][/\ (Fetch(11) /\ b' \in 0 .. 32767 /\ c' \in 1 .. 32767) =>
              /\ status' = "running"
              /\ registers'[a'] < c'
              /\ \E q \in 0 .. b' : b' = q * c' + registers'[a']
              /\ \A k \in 0 .. (NUM_REGISTERS - 1) :
                    k # a' => registers'[k] = registers[k]
              /\ UNCHANGED <<memory, stack>>
       /\ (Fetch(11) /\ b' \in 0 .. 32767 /\ c' = 0) =>
              /\ status' = "fatal"
              /\ UNCHANGED <<registers, memory, stack>>
       /\ status = "fatal" => UNCHANGED vars
      ]_vars

C16_Witness ==
    /\ op = 11
    /\ status = "running"
    /\ b = 32767
    /\ c = 2
    /\ a \in 0 .. (NUM_REGISTERS - 1)
    /\ registers[a] = 1

\* C17: a JT or JF at address p that completes leaves PC at p + 3 when its
\* condition does not hold (a = 0 for JT, a # 0 for JF) and at the decoded
\* address when it holds; registers, memory and stack are unchanged.
C17_CondJumpConsumesBoth ==
    [][((Fetch(7) \/ Fetch(8)) /\ status' = "running") =>
          /\ pc' = IF (op' = 7 /\ a' # 0) \/ (op' = 8 /\ a' = 0)
                   THEN b'
                   ELSE pc + 3
          /\ UNCHANGED <<registers, memory, stack>>
      ]_vars

C17_Witness ==
    /\ op = 7
    /\ status = "running"
    /\ a = 0
    /\ b = 32767
    /\ pc = 9

\* C18: in every step memory changes only in a WMEM and only at cell a;
\* the stack changes only by a word appended in PUSH or CALL or by its top
\* removed in POP or RET; registers change only in an instruction with a
\* write operand and only at register a; NOOP, OUT, JMP, JT and JF change
\* none of them, and only OUT among these changes the output.
C18_Frame ==
    [][/\ \A i \in DOMAIN memory \cup DOMAIN memory' :
              Mem(memory', i) # Mem(memory, i) => (Fetch(16) /\ i = a')
       /\ stack' # stack =>
              \/ /\ Fetch(2) \/ Fetch(17)
                 /\ Len(stack') = Len(stack) + 1
                 /\ SubSeq(stack', 1, Len(stack)) = stack
              \/ /\ Fetch(3) \/ Fetch(18)
                 /\ stack # <<>>
                 /\ stack' = SubSeq(stack, 1, Len(stack) - 1)
       /\ \A k \in 0 .. (NUM_REGISTERS - 1) :
              registers'[k] # registers[k] =>
                  /\ op' \in {1, 3, 4, 5, 9, 10, 11, 12, 13, 14, 15, 20}
                  /\ k = a'
       /\ (\E n \in {21, 19, 6, 7, 8} : Fetch(n)) =>
              /\ UNCHANGED <<memory, registers, stack>>
              /\ ~Fetch(19) => UNCHANGED output
      ]_vars

C18_Witness ==
    /\ op = 16
    /\ status = "running"
    /\ a = 0
    /\ b = 32767
    /\ Mem(memory, 0) = 32767
    /\ Mem(memory, 1) = 32768

\* C19: the two values decoded as the read operands of an ADD have a sum
\* that fits in 16 bits.
C19_AddNoOverflow ==
    (op = 9 /\ b # NONE /\ c # NONE) => b + c <= 65535

\* C20: every word on the stack is in 0..=32767.
C20_StackRange ==
    \A k \in 1 .. Len(stack) : stack[k] \in 0 .. 32767

\* C15: each of the six scenario programs, started at PC 0 with zero
\* registers and an empty stack, never ends in a fatal error, reaches the
\* normal end of run(), and ends with the stated result: outputs "A", "Hi",
\* "AB" and "X" for scenarios 1, 2, 4 and 6, register 2 = 30 for scenario
\* 3, register 0 = 32767 for scenario 5.
C15_Scenarios ==
    /\ [](\A k \in 1 .. Len(Scenarios) :
            memory = Words(Scenarios[k]) =>
                /\ status # "fatal"
                /\ status = "halted" =>
                      /\ k = 1 => output = <<65>>
                      /\ k = 2 => output = <<72, 105>>
                      /\ k = 3 => registers[2] = 30
                      /\ k = 4 => output = <<65, 66>>
                      /\ k = 5 => registers[0] = 32767
                      /\ k = 6 => output = <<88>>)
    /\ (\E k \in 1 .. Len(Scenarios) : memory = Words(Scenarios[k]))
           ~> (status = "halted")

C15_Witness ==
    /\ memory = Words(Scenarios[4])
    /\ status = "halted"
    /\ output = <<65, 66>>
    /\ stack = <<>>
    /\ op = 0

\* C13: when load() has returned from a file read without failure, the
\* little-endian encoding (low byte, then high byte) of the first N memory
\* words, N the number of whole words in the file, is the file without its
\* odd last byte, and every cell from N on holds what init() left there.
C13_LoadRoundTrip ==
    (status = "loaded" /\ file.errAt = NONE) =>
        LET N == Len(file.bytes) \div 2
            Encoded == [k \in 1 .. 2 * N |->
                           IF k % 2 = 1
                           THEN Mem(memory, (k - 1) \div 2) % 256
                           ELSE Mem(memory, (k - 1) \div 2) \div 256]
        IN  /\ Encoded = SubSeq(file.bytes, 1, 2 * N)
            /\ \A k \in 0 .. (N - 1) : Mem(memory, k) \in 0 .. 65535
            /\ \A k \in DOMAIN memory \cup DOMAIN Words(InitProgram) :
                   k >= N => Mem(memory, k) = Mem(Words(InitProgram), k)

C13_Witness ==
    /\ status = "loaded"
    /\ file.bytes = <<1, 0, 255, 1, 0>>
    /\ file.errAt = NONE
    /\ load_i = 2
    /\ Mem(memory, 0) = 1
    /\ Mem(memory, 1) = 511
    /\ Mem(memory, 2) = 32769

\* C14: a load that met a failed read is not reported as successful and is
\* not followed by run(): load() has not returned Ok(()), and run() is not
\* entered, when the read at the offset where the loop stopped failed.
C14_LoadErrorSurfaced ==
    status \in {"loaded", "running"} => file.errAt # 2 * load_i

====
